---- MODULE Spec2Model ----
(***************************************************************************)
(* Docwriter/generate_doc.py: the directory walk, the ignore rules, the    *)
(* text classifier and the per-file content step behind the four           *)
(* create_*_from_folder assemblers, and main().                            *)
(*                                                                         *)
(* A Python str / bytes value is a sequence of characters; a character is  *)
(* a one-element token ("a", "/", ...) and a control character or a byte   *)
(* that is not ASCII is a named token ("NUL", "BEL", "xFF", ...).  ord     *)
(* gives the code point, which is what sorted() and the regular expression *)
(* of sanitize_text compare.                                               *)
(***************************************************************************)
EXTENDS Integers, Sequences, FiniteSets, TLC

VARIABLES
    args,             \* [folder, output]: the two positional arguments of main
    fs,               \* the file system under args.folder: path -> node
    osOrder,          \* the order os.listdir / os.scandir return names in
    pc,               \* where main() is
    ignore_patterns,  \* the list load_ignore_patterns returned
    structure,        \* what get_structure_lines returned (line + its full_item)
    stack,            \* os.walk: directories still to be visited, next one first
    records,          \* what the per-file step handed to the assembler so far
    artifact,         \* the output file, once saved
    diagnostics,      \* messages printed by main and the assemblers
    exc               \* the exception that ended the run, or "none"

vars == <<args, fs, osOrder, pc, ignore_patterns, structure, stack,
          records, artifact, diagnostics, exc>>

----------------------------------------------------------------------------
(* Characters and strings *)

Lower == <<"a","b","c","d","e","f","g","h","i","j","k","l","m",
           "n","o","p","q","r","s","t","u","v","w","x","y","z">>
Upper == <<"A","B","C","D","E","F","G","H","I","J","K","L","M",
           "N","O","P","Q","R","S","T","U","V","W","X","Y","Z">>

Range(s) == {s[i] : i \in DOMAIN s}

IndexIn(s, c) == CHOOSE i \in DOMAIN s : s[i] = c

\* ord(c): the code point of a character.
ord(c) ==
    IF c \in Range(Lower) THEN 96 + IndexIn(Lower, c)
    ELSE IF c \in Range(Upper) THEN 64 + IndexIn(Upper, c)
    ELSE CASE c = "NUL" -> 0
           [] c = "BEL" -> 7
           [] c = "TAB" -> 9
           [] c = "LF"  -> 10
           [] c = "VT"  -> 11
           [] c = "CR"  -> 13
           [] c = "ESC" -> 27
           [] c = " "   -> 32
           [] c = "#"   -> 35
           [] c = "'"   -> 39
           [] c = "*"   -> 42
           [] c = "-"   -> 45
           [] c = "."   -> 46
           [] c = "/"   -> 47
           [] c = "0"   -> 48
           [] c = "1"   -> 49
           [] c = "3"   -> 51
           [] c = "7"   -> 55
           [] c = ":"   -> 58
           [] c = "?"   -> 63
           [] c = "["   -> 91
           [] c = "\\"  -> 92
           [] c = "]"   -> 93
           [] c = "DEL" -> 127
           [] c = "xFF" -> 255
           [] c = "uFFFD" -> 65533

\* str.lower() on the characters of the model.
lower_char(c) == IF c \in Range(Upper) THEN Lower[IndexIn(Upper, c)] ELSE c

lower(s) == [i \in DOMAIN s |-> lower_char(s[i])]

RECURSIVE StrLess(_, _)
\* a < b for two Python str: lexicographic on code points.
StrLess(a, b) ==
    IF b = <<>> THEN FALSE
    ELSE IF a = <<>> THEN TRUE
    ELSE IF a[1] = b[1] THEN StrLess(Tail(a), Tail(b))
    ELSE ord(a[1]) < ord(b[1])

RECURSIVE Insert(_, _)
Insert(sorted_prefix, x) ==
    IF sorted_prefix = <<>> THEN <<x>>
    ELSE IF StrLess(x, sorted_prefix[1]) THEN <<x>> \o sorted_prefix
    ELSE <<sorted_prefix[1]>> \o Insert(Tail(sorted_prefix), x)

RECURSIVE SortedAsc(_)
SortedAsc(names) ==
    IF names = <<>> THEN <<>>
    ELSE Insert(SortedAsc(SubSeq(names, 1, Len(names) - 1)), names[Len(names)])

\* A sort that leaves the list as the system gave it.
sorted_unsorted(names) == names

\* sorted(xs) of a list of str.
sorted(names) == SortedAsc(names)

RECURSIVE Join(_, _)
\* sep.join(parts)
Join(parts, sep) ==
    IF parts = <<>> THEN <<>>
    ELSE IF Len(parts) = 1 THEN parts[1]
    ELSE parts[1] \o sep \o Join(Tail(parts), sep)

RECURSIVE Split(_, _)
\* s.split(sep) for a one-character separator.
Split(s, sep) ==
    IF \A i \in DOMAIN s : s[i] # sep THEN <<s>>
    ELSE LET k == CHOOSE i \in DOMAIN s :
                     s[i] = sep /\ \A j \in 1..(i - 1) : s[j] # sep
         IN  <<SubSeq(s, 1, k - 1)>> \o Split(SubSeq(s, k + 1, Len(s)), sep)

\* s.replace(old, new) for one-character old and new.
Replace(s, old, new) == [i \in DOMAIN s |-> IF s[i] = old THEN new ELSE s[i]]

IsSpace(c) == c \in {" ", "TAB", "LF", "VT", "CR"}

RECURSIVE LStrip(_)
LStrip(s) == IF s # <<>> /\ IsSpace(s[1]) THEN LStrip(Tail(s)) ELSE s

RECURSIVE RStrip(_)
RStrip(s) ==
    IF s # <<>> /\ IsSpace(s[Len(s)]) THEN RStrip(SubSeq(s, 1, Len(s) - 1)) ELSE s

\* s.strip()
strip(s) == RStrip(LStrip(s))

RECURSIVE RStripChar(_, _)
\* s.rstrip(c)
RStripChar(s, c) ==
    IF s # <<>> /\ s[Len(s)] = c THEN RStripChar(SubSeq(s, 1, Len(s) - 1), c) ELSE s

StartsWith(s, prefix) ==
    Len(s) >= Len(prefix) /\ SubSeq(s, 1, Len(prefix)) = prefix

EndsWith(s, suffix) ==
    Len(s) >= Len(suffix) /\ SubSeq(s, Len(s) - Len(suffix) + 1, Len(s)) = suffix

----------------------------------------------------------------------------
(* Helpers of generate_doc.py *)

IsControl(c) ==
    LET n == ord(c)
    IN  \/ n \in 0..8
        \/ n \in {11, 12}
        \/ n \in 14..31
        \/ n = 127

KeepChar(c) == ~IsControl(c)

\* re.sub(r'[\x00-\x08\x0B\x0C\x0E-\x1F\x7F]', '', text)
sanitize_text(text) == SelectSeq(text, KeepChar)

\* The index of the last sep in s, 0 when there is none (str.rfind, 1-based).
RFind(s, c) ==
    IF \E i \in DOMAIN s : s[i] = c
    THEN CHOOSE i \in DOMAIN s : s[i] = c /\ \A j \in (i + 1)..Len(s) : s[j] # c
    ELSE 0

\* os.path.basename(p)
basename(p) == SubSeq(p, RFind(p, "/") + 1, Len(p))

\* os.path.splitext(p)[1]: from the last dot of the last component, unless that
\* component has nothing but dots before it.
splitext_ext(p) ==
    LET sepIndex == RFind(p, "/")
        dotIndex == RFind(p, ".")
    IN  IF dotIndex > sepIndex
           /\ \E k \in (sepIndex + 1)..(dotIndex - 1) : p[k] # "."
        THEN SubSeq(p, dotIndex, Len(p))
        ELSE <<>>

RECURSIVE fnmatch(_, _)
\* fnmatch.fnmatch(name, pat) on a POSIX system (normcase is the identity):
\* "*" matches any run of characters, "/" included, "?" any one character.
fnmatch(name, pat) ==
    IF pat = <<>> THEN name = <<>>
    ELSE IF pat[1] = "*"
         THEN \/ fnmatch(name, Tail(pat))
              \/ name # <<>> /\ fnmatch(Tail(name), pat)
    ELSE IF name = <<>> THEN FALSE
    ELSE /\ pat[1] = "?" \/ pat[1] = name[1]
         /\ fnmatch(Tail(name), Tail(pat))

\* A loop body without the branch for patterns ending in "/".
pattern_hits_glob_only(relative_path, pattern) ==
    \/ fnmatch(relative_path, pattern)
    \/ fnmatch(basename(relative_path), pattern)

\* One pattern of should_ignore's loop against the normalised path.
pattern_hits(relative_path, pattern) ==
    LET path_parts == Split(relative_path, "/")
    IN  \/ /\ EndsWith(pattern, <<"/">>)
           /\ \E i \in DOMAIN path_parts :
                  path_parts[i] = RStripChar(pattern, "/")
        \/ fnmatch(relative_path, pattern)
        \/ fnmatch(basename(relative_path), pattern)

should_ignore(relative_path, patterns) ==
    LET normalised == Replace(relative_path, "\\", "/")
    IN  \E i \in DOMAIN patterns : pattern_hits(normalised, patterns[i])

----------------------------------------------------------------------------
(* The file system and the libraries the program calls *)

(* fs maps a path, the sequence of names below args.folder, to a node       *)
(*   [kind: "file" | "dir", denied, bytes, package, shapes].                *)
(* <<>> is args.folder itself; it is missing when fs has no node for it.    *)
(* denied: the process may not read the node (open and listdir raise        *)
(* PermissionError).  bytes: a file's content.  package / shapes: whether   *)
(* the file is a presentation package pptx can open, and the text of its    *)
(* shapes in slide order.                                                   *)

exists(p) == p \in DOMAIN fs

isdir(p) == exists(p) /\ fs[p].kind = "dir"

isfile(p) == exists(p) /\ fs[p].kind = "file"

Parent(p) == SubSeq(p, 1, Len(p) - 1)

Last(p) == p[Len(p)]

IsPrefix(d, p) == Len(d) <= Len(p) /\ SubSeq(p, 1, Len(d)) = d

ChildNames(d) == {Last(p) : p \in {q \in DOMAIN fs : q # <<>> /\ Parent(q) = d}}

\* The exception os.listdir(d) / os.scandir(d) raises, "none" when it lists.
listdir_error(d) ==
    IF ~exists(d) THEN "FileNotFoundError"
    ELSE IF fs[d].kind # "dir" THEN "NotADirectoryError"
    ELSE IF fs[d].denied THEN "PermissionError"
    ELSE "none"

InDir(d, name) == name \in ChildNames(d)

\* os.listdir(d) when the operating system lists names in the given order.
listdir_in(order, d) == LET Here(name) == InDir(d, name) IN SelectSeq(order, Here)

\* os.listdir(d) / os.scandir(d) of this run.
listdir(d) == listdir_in(osOrder, d)

\* The path string of a node: os.path.join over args.folder and the names.
PathStr(p) == Join(<<args.folder>> \o p, <<"/">>)

\* os.path.relpath(path, start).replace('\\', '/') for a path below start.
relpath(p, start) == Join(SubSeq(p, Len(start) + 1, Len(p)), <<"/">>)

EscapeChar(c) ==
    CASE c = "NUL" -> <<"\\", "x", "0", "0">>
      [] c = "BEL" -> <<"\\", "x", "0", "7">>
      [] c = "VT"  -> <<"\\", "x", "0", "b">>
      [] c = "ESC" -> <<"\\", "x", "1", "b">>
      [] c = "DEL" -> <<"\\", "x", "7", "f">>
      [] c = "TAB" -> <<"\\", "t">>
      [] c = "LF"  -> <<"\\", "n">>
      [] c = "CR"  -> <<"\\", "r">>
      [] c = "\\"  -> <<"\\", "\\">>
      [] OTHER     -> <<c>>

RECURSIVE Escaped(_)
Escaped(s) == IF s = <<>> THEN <<>> ELSE EscapeChar(s[1]) \o Escaped(Tail(s))

\* repr(s) of a str without a single quote in it.
PyRepr(s) == <<"'">> \o Escaped(s) \o <<"'">>

\* str(PermissionError(13, 'Permission denied', filename))
PermissionErrorMsg(file_path) ==
    <<"[","E","r","r","n","o"," ","1","3","]"," ",
      "P","e","r","m","i","s","s","i","o","n"," ","d","e","n","i","e","d",":"," ">>
    \o PyRepr(file_path)

\* str of the PackageNotFoundError pptx raises for a file it cannot open as a
\* package: the path goes into the message as it is.
PackageNotFoundMsg(file_path) ==
    <<"P","a","c","k","a","g","e"," ","n","o","t"," ","f","o","u","n","d"," ",
      "a","t"," ","'">> \o file_path \o <<"'">>

NotDropped(c) == c # "DROP"

\* Universal newlines of a text-mode read: "\r\n" and "\r" become "\n" (the
\* "\n" after a "\r" is dropped, then every "\r" is a "\n").
Newlines(s) ==
    SelectSeq([i \in DOMAIN s |->
                  IF s[i] = "LF" /\ i > 1 /\ s[i - 1] = "CR" THEN "DROP"
                  ELSE IF s[i] = "CR" THEN "LF"
                  ELSE s[i]],
              NotDropped)

\* A byte that is no valid UTF-8 on its own.
Undecodable(b) == b = "xFF"

\* bytes.decode('utf-8', errors='replace') followed by newline translation.
decode_replace(bytes) ==
    Newlines([i \in DOMAIN bytes |->
                 IF Undecodable(bytes[i]) THEN "uFFFD" ELSE bytes[i]])

\* Whether a strict UTF-8 decode of the bytes raises UnicodeDecodeError.
decode_raises(bytes) == \E i \in DOMAIN bytes : Undecodable(bytes[i])

----------------------------------------------------------------------------
(* The program's functions *)

blocksize == 512

text_extensions ==
    { <<".","t","x","t">>, <<".","p","y">>, <<".","m","d">>,
      <<".","j","s","o","n">>, <<".","c","s","v">>, <<".","x","m","l">>,
      <<".","h","t","m","l">>, <<".","c","s","s">>, <<".","j","s">> }

PptxExt == <<".","p","p","t","x">>

special_extensions ==
    { PptxExt, <<".","d","o","c","x">>, <<".","x","l","s","x">>,
      <<".","p","d","f">> }

BinaryPlaceholder ==
    <<"[","B","i","n","a","r","y"," ","f","i","l","e"," ","-"," ",
      "c","o","n","t","e","n","t"," ","n","o","t"," ",
      "d","i","s","p","l","a","y","e","d","]">>

ErrorPrefix ==
    <<"E","r","r","o","r"," ","r","e","a","d","i","n","g"," ",
      "f","i","l","e",":"," ">>

DocIgnoreName == <<".","d","o","c","i","g","n","o","r","e">>

\* ext = os.path.splitext(file_path)[1].lower()
ext_of(file_path) == lower(splitext_ext(file_path))

\* The probe of is_text_file: the first blocksize bytes hold no NUL; an open
\* that raises is caught and gives False.
probe_says_text(p) ==
    /\ ~fs[p].denied
    /\ \A i \in 1..Len(fs[p].bytes) : i <= blocksize => fs[p].bytes[i] # "NUL"

\* A classifier that sniffs before it looks at the extension.
is_text_file_probe_first(p) ==
    LET ext == ext_of(PathStr(p))
    IN  IF ~probe_says_text(p) THEN FALSE
        ELSE ext \notin special_extensions

is_text_file(p) ==
    LET ext == ext_of(PathStr(p))
    IN  IF ext \in text_extensions THEN TRUE
        ELSE IF ext \in special_extensions THEN FALSE
        ELSE probe_says_text(p)

NonEmpty(t) == t # <<>>

\* extract_text_from_pptx: [raised, value]; the texts of the shapes that have
\* one, joined by newlines.
extract_text_from_pptx(p) ==
    IF fs[p].denied \/ ~fs[p].package
    THEN [raised |-> TRUE, value |-> PackageNotFoundMsg(PathStr(p))]
    ELSE [raised |-> FALSE,
          value  |-> Join(SelectSeq(fs[p].shapes, NonEmpty), <<"LF">>)]

\* open(file_path, 'r', encoding='utf-8', errors='replace').read()
read_text(p) ==
    IF fs[p].denied
    THEN [raised |-> TRUE, value |-> PermissionErrorMsg(PathStr(p))]
    ELSE [raised |-> FALSE, value |-> decode_replace(fs[p].bytes)]

\* The body of the try statement of the per-file step, before sanitize_text.
extracted(p) ==
    IF ext_of(PathStr(p)) = PptxExt
    THEN extract_text_from_pptx(p) @@ [via |-> "pptx"]
    ELSE IF ~is_text_file(p)
    THEN [raised |-> FALSE, value |-> BinaryPlaceholder, via |-> "binary"]
    ELSE read_text(p) @@ [via |-> "text"]

\* An except clause that keeps the bare message.
error_contents_bare(message) == message

\* What the except clause makes of an exception e: f"Error reading file: {e}"
error_contents(message) == ErrorPrefix \o message

\* The per-file step: file_contents as the assembler receives it, with the
\* heading (file_path) and the branch that produced it.
file_record(p) ==
    LET got == extracted(p)
    IN  [path    |-> p,
         heading |-> PathStr(p),
         raised  |-> got.raised,
         via     |-> got.via,
         body    |-> IF got.raised THEN error_contents(got.value)
                     ELSE sanitize_text(got.value)]

IsPattern(line) == line # <<>> /\ ~StartsWith(line, <<"#">>)

\* load_ignore_patterns(root_path): [raised, value].
load_ignore_patterns ==
    LET ignore_file == <<DocIgnoreName>>
    IN  IF ~exists(ignore_file) THEN [raised |-> "none", value |-> <<>>]
        ELSE IF fs[ignore_file].kind = "dir"
        THEN [raised |-> "IsADirectoryError", value |-> <<>>]
        ELSE IF fs[ignore_file].denied
        THEN [raised |-> "PermissionError", value |-> <<>>]
        ELSE IF decode_raises(fs[ignore_file].bytes)
        THEN [raised |-> "UnicodeDecodeError", value |-> <<>>]
        ELSE LET text     == Newlines(fs[ignore_file].bytes)
                 lines    == Split(text, "LF")
                 stripped == [i \in DOMAIN lines |-> strip(lines[i])]
             IN  [raised |-> "none", value |-> SelectSeq(stripped, IsPattern)]

RECURSIVE Flatten(_)
Flatten(blocks) ==
    IF blocks = <<>> THEN <<>> ELSE blocks[1] \o Flatten(Tail(blocks))

\* rel_item of get_structure_lines: relative to the root_path of this call.
structure_rel_item(full_item, root_path) == relpath(full_item, root_path)

\* The two loops of get_structure_lines in the other order.
structure_level_dirs_first(header, file_lines, dir_blocks) ==
    <<header>> \o Flatten(dir_blocks) \o file_lines

\* The lines of one call: the name line, the files, then the directories.
structure_level(header, file_lines, dir_blocks) ==
    <<header>> \o file_lines \o Flatten(dir_blocks)

RECURSIVE structure_lines_in(_, _, _)
\* get_structure_lines(root_path, ignore_patterns) when os.listdir gives names
\* in the given order: [raised, lines].  A line is kept with the full_item it
\* was appended for (root_path for the name line).
structure_lines_in(order, root_path, patterns) ==
    LET err       == listdir_error(root_path)
        root_name == IF root_path = <<>> THEN basename(args.folder)
                     ELSE Last(root_path)
        header    == [line |-> root_name \o <<"/">>, full_item |-> root_path]
    IN  IF err # "none" THEN [raised |-> err, lines |-> <<>>]
        ELSE
        LET items == sorted(listdir_in(order, root_path))
            Kept(item) ==
                ~should_ignore(
                    structure_rel_item(root_path \o <<item>>, root_path), patterns)
            KeptFile(item) == Kept(item) /\ isfile(root_path \o <<item>>)
            KeptDir(item)  == Kept(item) /\ isdir(root_path \o <<item>>)
            files == SelectSeq(items, KeptFile)
            dirs  == SelectSeq(items, KeptDir)
            sub   == [i \in DOMAIN dirs |->
                         structure_lines_in(order, root_path \o <<dirs[i]>>,
                                            patterns)]
            file_lines == [i \in DOMAIN files |->
                              [line |-> files[i],
                               full_item |-> root_path \o <<files[i]>>]]
            dir_blocks == [i \in DOMAIN dirs |->
                              <<[line |-> dirs[i] \o <<"/">>,
                                 full_item |-> root_path \o <<dirs[i]>>]>>
                              \o Tail(sub[i].lines)]
        IN  IF \E i \in DOMAIN dirs : sub[i].raised # "none"
            THEN LET k == CHOOSE i \in DOMAIN dirs :
                              /\ sub[i].raised # "none"
                              /\ \A j \in 1..(i - 1) : sub[j].raised = "none"
                 IN  [raised |-> sub[k].raised, lines |-> <<>>]
            ELSE [raised |-> "none",
                  lines  |-> structure_level(header, file_lines, dir_blocks)]

\* get_structure_lines(root_path, ignore_patterns) of this run.
get_structure_lines(root_path, patterns) ==
    structure_lines_in(osOrder, root_path, patterns)

\* rel path of the content walk: relative to the root_path of the run.
walk_rel_path(p) == relpath(p, <<>>)

\* dirnames[:] = [d for d in dirnames if not should_ignore(...)]
walk_dirnames(top, dirnames, patterns) ==
    LET Kept(d) == ~should_ignore(walk_rel_path(top \o <<d>>), patterns)
    IN  SelectSeq(dirnames, Kept)

\* for filename in sorted(filenames): ... if should_ignore(...): continue
walk_filenames(top, filenames, patterns) ==
    LET Kept(f) == ~should_ignore(walk_rel_path(top \o <<f>>), patterns)
    IN  SelectSeq(sorted(filenames), Kept)

\* A dispatch whose last branch is an assembler too.
SupportedOutput_no_else ==
    { <<".","d","o","c","x">>, <<".","p","d","f">>, PptxExt,
      <<".","i","p","y","n","b">>, <<".","x","y","z">>, <<>> }

\* The extensions main() has a branch for.
SupportedOutput ==
    { <<".","d","o","c","x">>, <<".","p","d","f">>, PptxExt,
      <<".","i","p","y","n","b">> }

NoArtifact == [written |-> FALSE, format |-> <<>>, structure_lines |-> <<>>,
               contents |-> <<>>]

----------------------------------------------------------------------------
(* The inputs of a run *)

MaxEntries == 4   \* entries of a generated tree, the ignore file not counted
MaxDepth   == 2   \* names on the longest generated path
MaxLines   == 1   \* lines of a generated ignore file
MaxTail    == 2   \* bytes of a generated file after its padding

NamePool == { <<"a">>, <<"b">> }

\* Lines of an ignore file: a directory rule, a name with blanks around it, a
\* rule for one path, a wildcard rule for paths.
LinePool ==
    { <<"a", "/">>, <<" ", "b", " ">>, <<"a", "/", "b">>, <<"*", "/", "b">> }

Folder == <<"r">>

FileNode(bytes) ==
    [kind |-> "file", denied |-> FALSE, bytes |-> bytes, package |-> FALSE,
     shapes |-> <<>>]

DirNode ==
    [kind |-> "dir", denied |-> FALSE, bytes |-> <<>>, package |-> FALSE,
     shapes |-> <<>>]

DefaultBytes == <<"h", "i">>

SeqsUpTo(S, n) == UNION {[1..k -> S] : k \in 0..n}

\* Up to n different elements of a set of str, in ascending order.
AscendingUpTo(S, n) ==
    {s \in SeqsUpTo(S, n) : \A i \in 1..(Len(s) - 1) : StrLess(s[i], s[i + 1])}

Perms(S) ==
    {s \in [1..Cardinality(S) -> S] :
        \A i, j \in 1..Cardinality(S) : i # j => s[i] # s[j]}

\* A tree is a set of [path, kind]; every path's parent is a directory of it.
TreePaths(t) == {e.path : e \in t}

TreeDirs(t) == {e.path : e \in {x \in t : x.kind = "dir"}} \cup {<<>>}

NewEntries(t) ==
    {[path |-> d \o <<n>>, kind |-> k] :
        d \in {x \in TreeDirs(t) : Len(x) < MaxDepth},
        n \in NamePool, k \in {"file", "dir"}}

Grow(T) ==
    T \cup UNION {{t \cup {e} : e \in {x \in NewEntries(t) :
                                         x.path \notin TreePaths(t)}} : t \in T}

RECURSIVE TreesUpTo(_)
TreesUpTo(n) == IF n = 0 THEN {{}} ELSE Grow(TreesUpTo(n - 1))

\* The file system of a tree: the folder, the entries, the given extra nodes.
TreeFs(t, extra) ==
    [p \in {<<>>} \cup TreePaths(t) \cup DOMAIN extra |->
        IF p \in DOMAIN extra THEN extra[p]
        ELSE IF p = <<>> THEN DirNode
        ELSE LET e == CHOOSE x \in t : x.path = p
             IN  IF e.kind = "dir" THEN DirNode ELSE FileNode(DefaultBytes)]

NamesOf(f) == {Last(p) : p \in DOMAIN f \ {<<>>}}

One(p, node) == [q \in {p} |-> node]

None == [q \in {} |-> DirNode]

\* The ignore file holding the given lines.
IgnoreFile(lines) == One(<<DocIgnoreName>>, FileNode(Join(lines, <<"LF">>)))

StartOfRun ==
    /\ pc = "start"
    /\ ignore_patterns = <<>>
    /\ structure = <<>>
    /\ stack = <<>>
    /\ records = <<>>
    /\ artifact = NoArtifact
    /\ diagnostics = <<>>
    /\ exc = "none"

\* Trees and ignore files: every tree within the bounds, with no ignore file
\* or one of up to MaxLines different lines, listed by the system in any order.
InitTree ==
    /\ args = [folder |-> Folder, output |-> <<"o">> \o <<".","d","o","c","x">>]
    /\ \E t \in TreesUpTo(MaxEntries), lines \in AscendingUpTo(LinePool, MaxLines) :
          fs = TreeFs(t, IF lines = <<>> THEN None ELSE IgnoreFile(lines))
    /\ osOrder \in Perms(NamesOf(fs))
    /\ StartOfRun

FileNamePool ==
    { <<"n", ".", "t", "x", "t">>, <<"n", ".", "T", "X", "T">>,
      <<"n", ".", "p", "d", "f">>, <<"n", ".", "d", "o", "c", "x">>,
      <<"n", ".", "b", "i", "n">>,
      <<"n">>, <<".", "t", "x", "t">>,
      <<"n", ".", "p", "p", "t", "x">>,
      <<"n", "BEL", ".", "P", "p", "t", "x">> }

ByteAlphabet == {"h", "NUL", "CR", "LF", "xFF"}

\* Leading filler of a generated file: none, or one byte short of the block
\* the classifier reads.
Padding(n) == [i \in 1..n |-> "h"]

HelloNulWorld == <<"h","e","l","l","o","NUL","w","o","r","l","d">>

ContentPool ==
    {Padding(n) \o tail :
        n \in {0, blocksize - 1}, tail \in SeqsUpTo(ByteAlphabet, MaxTail)}
    \cup {HelloNulWorld}

ShapesPool ==
    { <<>>, << <<"h">> >>, << <<"h">>, <<>>, <<"i", "VT", "j">> >> }

\* One file of every kind: its name, its bytes, whether it can be read, and for
\* a presentation whether it is a package and what its shapes say.
InitFile ==
    /\ args = [folder |-> Folder, output |-> <<"o">> \o <<".","i","p","y","n","b">>]
    /\ \E name \in FileNamePool, denied \in BOOLEAN :
          /\ osOrder = <<name>>
          /\ IF lower(splitext_ext(name)) = PptxExt
             THEN \E package \in BOOLEAN, shapes \in ShapesPool :
                     /\ package \/ shapes = <<>>
                     /\ fs = TreeFs({}, One(<<name>>,
                               [FileNode(DefaultBytes) EXCEPT
                                   !.denied = denied, !.package = package,
                                   !.shapes = shapes]))
             ELSE \E bytes \in ContentPool :
                     fs = TreeFs({}, One(<<name>>,
                               [FileNode(bytes) EXCEPT !.denied = denied]))
    /\ StartOfRun

OutputPool ==
    { <<"o", ".", "d", "o", "c", "x">>, <<"o", ".", "P", "D", "F">>,
      <<"o", ".", "p", "p", "t", "x">>, <<"o", ".", "i", "p", "y", "n", "b">>,
      <<"o", ".", "x", "y", "z">>, <<"o">> }

\* Ignore files a run can meet: none, a comment, a blank line and a rule,
\* bytes that are no UTF-8, a file that may not be read.
IgnoreFilePool ==
    { None,
      IgnoreFile(<< <<"#", " ", "x">>, <<>>, <<"c", "*">> >>),
      One(<<DocIgnoreName>>, FileNode(<<"a", "xFF">>)),
      One(<<DocIgnoreName>>, [FileNode(<<"a">>) EXCEPT !.denied = TRUE]) }

MainTree ==
    { [path |-> << <<"a", ".", "t", "x", "t">> >>, kind |-> "file"],
      [path |-> << <<"b">> >>, kind |-> "dir"],
      [path |-> << <<"b">>, <<"c", ".", "p", "p", "t", "x">> >>, kind |-> "file"],
      [path |-> << <<"c">> >>, kind |-> "file"] }

Deny(f, ps) == [p \in DOMAIN f |-> IF p \in ps THEN [f[p] EXCEPT !.denied = TRUE]
                                   ELSE f[p]]

\* Arguments and failures: every output name; a folder that is missing, a
\* file, or a directory whose ignore file, subdirectory or files may fail.
\* The system lists names in descending order here.
InitMain ==
    /\ args \in [folder : {Folder}, output : OutputPool]
    /\ \/ fs = None
       \/ fs = One(<<>>, FileNode(DefaultBytes))
       \/ \E ign \in IgnoreFilePool, p \in TreePaths(MainTree) \cup {<<>>} :
             \E denied \in {{}, {p}} :
                fs = Deny(TreeFs(MainTree, ign), denied)
    /\ osOrder \in {s \in Perms(NamesOf(fs)) :
                       \A i \in 1..(Len(s) - 1) : StrLess(s[i + 1], s[i])}
    /\ StartOfRun

Init == InitTree \/ InitFile \/ InitMain

----------------------------------------------------------------------------
(* The run of main() *)

\* main(): the folder check and the choice of the assembler.
Main ==
    /\ pc = "start"
    /\ IF ~exists(<<>>)
       THEN /\ pc' = "exit"
            /\ exc' = "SystemExit"
            /\ diagnostics' = Append(diagnostics, "Folder not found")
       ELSE IF ext_of(args.output) \in SupportedOutput
       THEN /\ pc' = "load"
            /\ UNCHANGED <<exc, diagnostics>>
       ELSE /\ pc' = "done"
            /\ diagnostics' = Append(diagnostics, "Unsupported output file type")
            /\ exc' = exc
    /\ UNCHANGED <<args, fs, osOrder, ignore_patterns, structure, stack,
                   records, artifact>>

\* create_*_from_folder: ignore_patterns = load_ignore_patterns(root_path)
LoadIgnorePatterns ==
    /\ pc = "load"
    /\ LET r == load_ignore_patterns
       IN  IF r.raised # "none"
           THEN /\ pc' = "crashed"
                /\ exc' = r.raised
                /\ UNCHANGED <<ignore_patterns, diagnostics>>
           ELSE /\ pc' = "structure"
                /\ ignore_patterns' = r.value
                /\ diagnostics' = Append(diagnostics, "Ignore patterns")
                /\ exc' = exc
    /\ UNCHANGED <<args, fs, osOrder, structure, stack, records, artifact>>

\* create_*_from_folder: structure_lines = get_structure_lines(...)
GetStructureLines ==
    /\ pc = "structure"
    /\ LET r == get_structure_lines(<<>>, ignore_patterns)
       IN  IF r.raised # "none"
           THEN /\ pc' = "crashed"
                /\ exc' = r.raised
                /\ UNCHANGED <<structure, stack>>
           ELSE /\ pc' = "walk"
                /\ structure' = r.lines
                /\ stack' = << <<>> >>
                /\ exc' = exc
    /\ UNCHANGED <<args, fs, osOrder, ignore_patterns, records, artifact,
                   diagnostics>>

IsDirName(top, name) == isdir(top \o <<name>>)

\* One iteration of "for dirpath, dirnames, filenames in os.walk(root_path)":
\* os.walk scans the next directory (a scandir error is swallowed and nothing
\* is yielded), the body prunes dirnames and handles the files in sorted
\* order, and os.walk goes on into the dirnames that are left, in their order.
WalkStep ==
    /\ pc = "walk"
    /\ stack # <<>>
    /\ LET top == Head(stack)
       IN  IF listdir_error(top) # "none"
           THEN /\ stack' = Tail(stack)
                /\ records' = records
           ELSE LET names     == listdir(top)
                    IsD(n)    == IsDirName(top, n)
                    IsF(n)    == ~IsDirName(top, n)
                    dirnames  == walk_dirnames(top, SelectSeq(names, IsD),
                                               ignore_patterns)
                    filenames == walk_filenames(top, SelectSeq(names, IsF),
                                                ignore_patterns)
                IN  /\ records' = records \o
                           [i \in DOMAIN filenames |->
                               file_record(top \o <<filenames[i]>>)]
                    /\ stack' = [i \in DOMAIN dirnames |-> top \o <<dirnames[i]>>]
                                \o Tail(stack)
    /\ UNCHANGED <<args, fs, osOrder, pc, ignore_patterns, structure, artifact,
                   diagnostics, exc>>

\* document.save / c.save / prs.save / nbformat.write, and the last print.
\* The four assemblers differ in the container they build, not in what they
\* are handed; the libraries behind them are taken to accept every string.
Save ==
    /\ pc = "walk"
    /\ stack = <<>>
    /\ artifact' = [written |-> TRUE,
                    format |-> ext_of(args.output),
                    structure_lines |-> [i \in DOMAIN structure |-> structure[i].line],
                    contents |-> [i \in DOMAIN records |->
                                     [heading |-> records[i].heading,
                                      body |-> records[i].body]]]
    /\ diagnostics' = Append(diagnostics, "created successfully")
    /\ pc' = "done"
    /\ UNCHANGED <<args, fs, osOrder, ignore_patterns, structure, stack,
                   records, exc>>

Next == Main \/ LoadIgnorePatterns \/ GetStructureLines \/ WalkStep \/ Save

Spec == Init /\ [][Next]_vars

\* The runs over generated trees and ignore files.
SpecTree == InitTree /\ [][Next]_vars

\* The runs over one file of every kind.
SpecFile == InitFile /\ [][Next]_vars

\* The runs over arguments and failures.
SpecMain == InitMain /\ [][Next]_vars

----------------------------------------------------------------------------
(* Properties *)

\* The entry of path p is in the structure listing (the name line aside).
Listed(p) == \E i \in 2..Len(structure) : structure[i].full_item = p

Prefixes(p) == {SubSeq(p, 1, k) : k \in 1..Len(p)}

\* should_ignore is false for the root-relative path of p and of every
\* ancestor directory of p, under the given patterns.
RootKept(p, patterns) ==
    \A q \in Prefixes(p) : ~should_ignore(relpath(q, <<>>), patterns)

RecordPaths == {records[i].path : i \in DOMAIN records}

\* C1: the structure listing and the content walk take the same ignore
\* decision, on the root-relative path: an entry at any depth is listed iff
\* should_ignore is false for its root-relative path and that of every
\* ancestor, and the files listed are the files that get a content record.
C1_SameIgnoreDecision ==
    artifact.written =>
        /\ \A p \in DOMAIN fs \ {<<>>} :
               Listed(p) <=> RootKept(p, ignore_patterns)
        /\ {p \in DOMAIN fs : isfile(p) /\ Listed(p)} = RecordPaths

\* The order the claim of C2 fixes: the files of a directory in ascending name
\* order and before those of its subdirectories, the subdirectories in
\* ascending name order.
WalkBefore(p, q) ==
    LET dp == Parent(p)
        dq == Parent(q)
    IN  IF dp = dq THEN StrLess(Last(p), Last(q))
        ELSE IF IsPrefix(dp, dq) THEN TRUE
        ELSE IF IsPrefix(dq, dp) THEN FALSE
        ELSE LET k == CHOOSE i \in 1..Len(dp) :
                          /\ i <= Len(dq)
                          /\ dp[i] # dq[i]
                          /\ \A j \in 1..(i - 1) : dp[j] = dq[j]
             IN  StrLess(dp[k], dq[k])

\* C2: whatever order the operating system lists a directory in, the content
\* walk emits the file records in one order: subdirectories recursed in
\* ascending name order, the files of a directory in ascending name order.
C2_WalkOrderFixed ==
    artifact.written =>
        \A i, j \in DOMAIN records :
            i < j => WalkBefore(records[i].path, records[j].path)

\* get_structure_lines has just returned to the assembler.
StructureReturned == pc = "walk" /\ stack = << <<>> >> /\ records = <<>>

EntryName(i) == Last(structure[i].full_item)

EntryDir(i) == Parent(structure[i].full_item)

\* C6: in the structure listing the root name line comes once and first; at
\* every directory level the kept files come before the kept subdirectories,
\* files and subdirectories each in ascending name order; a subdirectory has
\* one "<name>/" line, immediately followed by the entries below it.
C6_StructureOrder ==
    StructureReturned =>
        /\ structure[1] = [line |-> basename(args.folder) \o <<"/">>,
                           full_item |-> <<>>]
        /\ \A i \in 2..Len(structure) :
               /\ structure[i].full_item # <<>>
               /\ structure[i].line =
                     IF isdir(structure[i].full_item)
                     THEN EntryName(i) \o <<"/">> ELSE EntryName(i)
        /\ \A i, j \in 2..Len(structure) :
               /\ i # j => structure[i].full_item # structure[j].full_item
               /\ (i < j /\ EntryDir(i) = EntryDir(j)) =>
                     /\ ~(isdir(structure[i].full_item)
                          /\ isfile(structure[j].full_item))
                     /\ (isdir(structure[i].full_item)
                         <=> isdir(structure[j].full_item))
                           => StrLess(EntryName(i), EntryName(j))
               /\ (isdir(structure[i].full_item)
                   /\ i # j
                   /\ IsPrefix(structure[i].full_item, structure[j].full_item))
                     => /\ i < j
                        /\ \A m \in (i + 1)..j :
                               IsPrefix(structure[i].full_item,
                                        structure[m].full_item)

\* C6 witness: a listing with two files and a subdirectory at one level, the
\* subdirectory with an entry of its own, listed by the system out of order.
C6_Witness ==
    /\ pc = "done"
    /\ osOrder # sorted(osOrder)
    /\ \E i, j, k, m \in 2..Len(structure) :
          /\ i < j /\ j < k /\ m = k + 1
          /\ EntryDir(i) = EntryDir(j) /\ EntryDir(j) = EntryDir(k)
          /\ isfile(structure[i].full_item) /\ isfile(structure[j].full_item)
          /\ isdir(structure[k].full_item)
          /\ EntryDir(m) = structure[k].full_item

\* C7: get_structure_lines returns the same lines whatever order the operating
\* system lists the entries of each directory in.
C7_StructureDeterministic ==
    StructureReturned =>
        \A order \in Perms(NamesOf(fs)) :
            structure_lines_in(order, <<>>, ignore_patterns) =
                [raised |-> "none", lines |-> structure]

\* C7 witness: a listing holding two entries of one directory that the system
\* lists in descending name order.
C7_Witness ==
    /\ StructureReturned
    /\ \E i, j \in 2..Len(structure) :
          /\ EntryDir(i) = EntryDir(j)
          /\ StrLess(EntryName(i), EntryName(j))
          /\ \E a, b \in DOMAIN osOrder :
                a < b /\ osOrder[a] = EntryName(j) /\ osOrder[b] = EntryName(i)

IsDirRule(pattern) == EndsWith(pattern, <<"/">>) /\ Len(pattern) > 1

\* C8: under a pattern "<name>/" the structure listing has no entry whose path
\* has a segment equal to <name>, at any depth, and so none below such a
\* directory; an entry with no such segment that, with its ancestors, matches
\* no other pattern is listed.
C8_DirectoryRule ==
    StructureReturned =>
        \A k \in DOMAIN ignore_patterns :
            IsDirRule(ignore_patterns[k]) =>
                LET name == RStripChar(ignore_patterns[k], "/")
                    Other(pattern) == pattern # ignore_patterns[k]
                    others == SelectSeq(ignore_patterns, Other)
                IN  /\ \A i \in 2..Len(structure) :
                           name \notin Range(structure[i].full_item)
                    /\ \A p \in DOMAIN fs \ {<<>>} :
                           (name \notin Range(p) /\ RootKept(p, others))
                               => Listed(p)

\* C8 witness: the rule "a/" over a/b and b/b: the listing holds "b/" and the
\* "b" below it, and neither "a/" nor what is below it.
C8_Witness ==
    /\ StructureReturned
    /\ \E k \in DOMAIN ignore_patterns, p, q \in DOMAIN fs :
          /\ IsDirRule(ignore_patterns[k])
          /\ Len(p) = 2 /\ p[1] = RStripChar(ignore_patterns[k], "/")
          /\ Len(q) = 2 /\ q[1] # p[1] /\ isfile(p) /\ isfile(q)
          /\ Listed(q) /\ Listed(Parent(q))
          /\ ~Listed(p) /\ ~Listed(Parent(p))

\* The files the content walk comes to: not ignored on the root-relative path,
\* no ignored ancestor, every ancestor directory one the walk can scan.
WalkFiles ==
    {p \in DOMAIN fs :
        /\ isfile(p)
        /\ RootKept(p, ignore_patterns)
        /\ \A k \in 0..(Len(p) - 1) : listdir_error(SubSeq(p, 1, k)) = "none"}

\* C3: when the read or the extraction of one file raises, that file's content
\* begins with "Error reading file:", no exception ends the run once the
\* per-file steps have begun, and the artifact is written with one record for
\* every file the walk comes to.
C3_ReadErrorContained ==
    /\ \A i \in DOMAIN records :
           records[i].raised => StartsWith(records[i].body, ErrorPrefix)
    /\ records # <<>> => exc = "none" /\ pc \in {"walk", "done"}
    /\ (pc = "done" /\ structure # <<>>) =>
           /\ artifact.written
           /\ RecordPaths = WalkFiles
           /\ Len(records) = Cardinality(RecordPaths)
           /\ artifact.contents =
                  [i \in DOMAIN records |->
                      [heading |-> records[i].heading, body |-> records[i].body]]

\* C3 witness: a finished run in which one file's read raised and a file that
\* came after it has its own content.
C3_Witness ==
    /\ pc = "done"
    /\ artifact.written
    /\ \E i, j \in DOMAIN records :
          /\ i < j
          /\ records[i].raised
          /\ StartsWith(artifact.contents[i].body, ErrorPrefix)
          /\ ~records[j].raised
          /\ artifact.contents[j].body = DefaultBytes

\* C4: a run on an existing root path with a supported output extension always
\* runs to completion: no failure met on the way ends it.
C4_RunCompletes ==
    (exists(<<>>) /\ ext_of(args.output) \in SupportedOutput) =>
        /\ pc # "crashed"
        /\ exc = "none"

NoControl(text) == \A k \in DOMAIN text : ~IsControl(text[k])

\* C5: every content string handed to an assembler holds no character in
\* 0x00-0x08, 0x0B, 0x0C, 0x0E-0x1F or 0x7F, on every path of the per-file
\* step, the "Error reading file: <message>" string included.
C5_ContentsSanitized ==
    \A i \in DOMAIN records : NoControl(records[i].body)

NulInBlock(bytes) ==
    \E k \in DOMAIN bytes : k <= blocksize /\ bytes[k] = "NUL"

\* C9: the extension decides before the content does: a file with an extension
\* of the plain-text list is read as text whatever its bytes, .pptx goes to the
\* presentation extractor, .docx / .xlsx / .pdf give the binary placeholder,
\* and any other file gives the placeholder iff its first 512 bytes hold a NUL
\* or the probe read fails, and is decoded as text otherwise.
C9_ExtensionFirst ==
    \A i \in DOMAIN records :
        LET r    == records[i]
            node == fs[r.path]
            ext  == lower(splitext_ext(r.heading))
            text == sanitize_text(decode_replace(node.bytes))
        IN  /\ ext \in text_extensions =>
                  /\ r.via = "text"
                  /\ ~node.denied => r.body = text
            /\ ext = PptxExt => r.via = "pptx"
            /\ ext \in special_extensions \ {PptxExt} =>
                  r.via = "binary" /\ r.body = BinaryPlaceholder
            /\ ext \notin text_extensions \cup special_extensions =>
                  /\ r.via = "binary" <=> (NulInBlock(node.bytes) \/ node.denied)
                  /\ r.via = "binary" => r.body = BinaryPlaceholder
                  /\ r.via # "binary" => r.via = "text" /\ r.body = text

\* C9 witness: a .txt file holding "hello", a NUL and "world" came out as
\* "helloworld".
C9_Witness ==
    \E i \in DOMAIN records :
        /\ lower(splitext_ext(records[i].heading)) = <<".","t","x","t">>
        /\ fs[records[i].path].bytes = HelloNulWorld
        /\ records[i].body = <<"h","e","l","l","o","w","o","r","l","d">>

====
